---- MODULE Spec2Model ----
(***************************************************************************)
(* BTCP relay (BTCPServer): sessions, SSE push channels, id rewriting of   *)
(* forwarded requests, the pending-response table and its timeout timers.  *)
(*                                                                         *)
(* Ids produced by generateMessageId are modelled by the value of the      *)
(* process-wide messageCounter they embed (`btcp-<ms>-<counter>`).  Ids     *)
(* chosen by callers are drawn from OrigIds.                               *)
(***************************************************************************)
EXTENDS Integers, Sequences, FiniteSets, TLC

\* ------------------------------------------------------------------ bounds
MaxClients == 2
MaxPosts == 3
MaxKeepAlive == 1
MaxSources == 4
MaxRequests == 2
MaxInbound == 2
maxReconnectAttempts == 2

\* --------------------------------------------------------- program values
SESSION_ERROR == -32002
TIMEOUT_ERROR == -32001
EXECUTION_ERROR == -32003
TOOL_NOT_FOUND == -32004
INTERNAL_ERROR == -32603
METHOD_NOT_FOUND == -32601
reconnectDelay == 1000
CONNECTION_ERROR == -32000

\* `undefined` / `null` / absent id
None == 0
\* the literal ids 'disconnect' and 'sessions' of the two unsolicited responses
IdDisconnect == 900
IdSessions == 901

SessionIds == {"X", "Y"}
ClientTypes == {"browser", "agent"}
\* ids chosen by callers for their requests
OrigIds == {101}
\* tool lists a provider registers (names only)
ToolLists == {<<"echo">>}
\* payload of a provider's response: a result (0) or an error code
RespCodes == {0}

VARIABLES
    sessions,        \* BTCPServer.sessions: session id -> Session
    clients,         \* BTCPServer.clients: client id -> SSEClient
    pendingResponses,\* the pendingResponses maps of all Session objects
    timers,          \* armed setTimeout callbacks of forwarded requests
    keepAliveIntervals, \* client ids with an armed keep-alive interval
    messageCounter,  \* protocol.ts messageCounter
    chan,            \* frames written to each client's SSE response
    hist,            \* history: who posted each forwarded request
    posts,           \* number of POSTs routed so far
    ticks,           \* keep-alive lines written to each client's SSE response
    cap,             \* how many attaches, POSTs and keep-alive ticks are explored
    poster,          \* history: the client that made the last POST (when cap.trace)
    http,            \* the HTTP response to the last POST /message (when cap.http)
    bc,              \* BTCPClient: connected, reconnectAttempts, eventSource, config
    sources,         \* the EventSource objects BTCPClient.connect created
    backoff,         \* armed reconnect timers of BTCPClient.handleReconnect
    requests,        \* BTCPClient.request calls: promise, pendingRequests entry, timer
    clog,            \* history of the client: delays scheduled, events, messages sent
    parsed,          \* the last message handed to the type guards, and their answers
    peers,           \* two BTCPClient instances that attach to the relay as providers
    stopped          \* history: the channels stop() ended and the timers then armed

\* the state of the BTCPClient instance
cvars == <<bc, sources, backoff, requests, clog, parsed, peers, stopped>>

vars == <<sessions, clients, pendingResponses, timers, keepAliveIntervals,
          messageCounter, chan, hist, posts, ticks, cap, poster, http, cvars>>

\* ------------------------------------------------------------- helpers
Range(s) == {s[k] : k \in 1..Len(s)}

Min(S) == CHOOSE x \in S : \A y \in S : x <= y

\* Map.delete on an insertion-ordered map of client ids
Remove(s, c) == SelectSeq(s, LAMBDA x : x # c)

\* Map.set on an insertion-ordered map: an existing key keeps its place
Insert(s, c) == IF c \in Range(s) THEN s ELSE Append(s, c)

\* the empty map
Empty == [k \in {} |-> None]

\* restriction of a function to the keys in S
Restrict(f, S) == [k \in S |-> f[k]]

\* a JSON-RPC frame; unused fields keep these defaults
Frame == [kind |-> "", method |-> "", id |-> None, code |-> 0, tools |-> <<>>,
          sid |-> "", peer |-> None, ctype |-> "", list |-> {}, count |-> 0,
          req |-> None]

\* createResponse(id, result)
createResponse(id) == [Frame EXCEPT !.kind = "result", !.id = id]

\* createErrorResponse(id, code, message)
createErrorResponse(id, code) == [Frame EXCEPT !.kind = "error", !.id = id, !.code = code]

\* an SSE response that accepts writes: not ended by the relay, socket not closed
Writable(cl, c) == c \in DOMAIN cl /\ ~cl[c].ended

\* a send that does not test writableEnded
sendToClientUnchecked(ch, cl, c, m) == [ch EXCEPT ![c] = Append(@, m)]

\* sendToClient: appends the frame unless the response has ended (or is gone)
sendToClient(ch, cl, c, m) ==
    IF Writable(cl, c) THEN [ch EXCEPT ![c] = Append(@, m)] ELSE ch

\* sendToClient to every client of an agentClients map
sendToAll(ch, cl, agents, m) ==
    [c \in DOMAIN ch |->
        IF c \in Range(agents) /\ Writable(cl, c) THEN Append(ch[c], m) ELSE ch[c]]

\* the live pending table of session s
PendingOf(s) == {i \in DOMAIN pendingResponses :
                    pendingResponses[i].sid = s /\ pendingResponses[i].live}

\* ------------------------------------------------------------------ Init
Constructed ==
    /\ sessions = Empty
    /\ clients = Empty
    /\ pendingResponses = Empty
    /\ timers = Empty
    /\ keepAliveIntervals = {}
    /\ messageCounter = 0
    /\ chan = Empty
    /\ hist = Empty
    /\ posts = 0
    /\ ticks = Empty
    /\ poster = None
    /\ stopped = [channels |-> {}, timers |-> {}]

\* a parsed JSON-RPC message: which keys it has ('method' absent is ""),
\* whether its params (when it has params) have the key `tools`, and
\* for a POST body whether it was JSON, an object, and what jsonrpc said
MessageBody == [json |-> TRUE, object |-> TRUE, jsonrpc |-> "2.0", id |-> TRUE,
                method |-> "", params |-> TRUE, tools |-> TRUE, result |-> FALSE,
                error |-> FALSE]

\* no message has been handed to the type guards
Unclassified == [done |-> FALSE, message |-> MessageBody, isRequest |-> FALSE,
                 isResponse |-> FALSE, isNotification |-> FALSE]

\* two BTCPClient instances constructed with autoReconnect (the default) and
\* the same sessionId: the fields connect() and handleReconnect use, the
\* relay's client ids of the streams each has had opened, and where its current
\* EventSource stands
Peers == {1, 2}
DuelSession == "X"
FreshPeer == [connected |-> FALSE, reconnectAttempts |-> 0, autoReconnect |-> TRUE,
              eventSource |-> None, phase |-> "idle", backoff |-> <<>>,
              clog |-> [sched |-> <<>>, errors |-> 0], streams |-> {}]
NoPeers == [p \in Peers |-> FreshPeer]

\* new BTCPClient(config): nothing connected, nothing pending
ClientConstructed(autoReconnect) ==
    /\ bc = [connected |-> FALSE, reconnectAttempts |-> 0, eventSource |-> None,
             autoReconnect |-> autoReconnect]
    /\ sources = <<>>
    /\ backoff = <<>>
    /\ requests = <<>>
    /\ clog = [sched |-> <<>>, errors |-> 0, posted |-> <<>>,
               unhandled |-> 0, inbound |-> 0, terminal |-> FALSE]

\* no POST has been answered yet
Unanswered == [status |-> 0, after |-> 0, error |-> ""]

\* the relay alone: no POST answered yet, the client library constructed and idle
RelayOnly ==
    /\ http = Unanswered
    /\ ClientConstructed(TRUE)
    /\ parsed = Unclassified
    /\ peers = NoPeers

\* two peers, every operation of the relay
Init ==
    /\ Constructed
    /\ RelayOnly
    /\ cap = [clients |-> MaxClients, posts |-> MaxPosts, ticks |-> MaxKeepAlive,
              trace |-> FALSE, http |-> FALSE]

\* three peers, the tools/call routing operations
InitTrio ==
    /\ Constructed
    /\ RelayOnly
    /\ cap = [clients |-> MaxClients + 1, posts |-> MaxPosts, ticks |-> 0,
              trace |-> FALSE, http |-> FALSE]

\* three peers, any peer posting any message into any session
InitOpen ==
    /\ Constructed
    /\ RelayOnly
    /\ cap = [clients |-> MaxClients + 1, posts |-> MaxPosts - 1, ticks |-> 0,
              trace |-> TRUE, http |-> FALSE]

\* ---------------------------------------------------- attach (GET /events)
\* an id generator whose counter is read without being advanced
generateMessageIdNoIncrement == IF messageCounter = 0 THEN 1 ELSE messageCounter

\* generateMessageId: `btcp-<ms>-<++messageCounter>`, named by its counter
generateMessageId == messageCounter + 1

\* a takeover that leaves the incumbent's response open
EndIncumbentSkipped(cl, old) == cl

\* handleBrowserConnect: session.browserClient.response.end() for the incumbent
EndIncumbent(cl, old) == [cl EXCEPT ![old].ended = TRUE]

\* a takeover that leaves the incumbent in the session's browserClient
BrowserSessionKeepingIncumbent(s, c) ==
    IF s \notin DOMAIN sessions
    THEN [browserClient |-> c, agentClients |-> <<>>, tools |-> <<>>]
    ELSE IF sessions[s].browserClient # None
    THEN sessions[s]
    ELSE [sessions[s] EXCEPT !.browserClient = c]

\* handleBrowserConnect: the session after browser client c attached to s
BrowserSession(s, c) ==
    IF s \notin DOMAIN sessions
    THEN [browserClient |-> c, agentClients |-> <<>>, tools |-> <<>>]
    ELSE [sessions[s] EXCEPT !.browserClient = c]

\* the value of a destructured key that the object lacks
Undefined == <<"undefined">>

\* handleAgentConnect reads s.tools.length of every session that has a browser:
\* a TypeError there leaves the 'request' listener uncaught and ends the process
AgentConnectThrows ==
    \E x \in DOMAIN sessions :
        sessions[x].browserClient # None /\ sessions[x].tools = Undefined

\* handleAgentConnect: the sessions that have a browser, with their tool counts
SessionList ==
    {[id |-> s, toolCount |-> Len(sessions[s].tools)] :
        s \in {x \in DOMAIN sessions : sessions[x].browserClient # None}}

\* a `connected` notification that does not tell the peer its id
ConnectedAnonymous(c, s, type) ==
    [Frame EXCEPT !.kind = "notify", !.method = "connected", !.sid = s, !.ctype = type]

\* the `connected` notification of handleSSE
Connected(c, s, type) ==
    [Frame EXCEPT !.kind = "notify", !.method = "connected", !.peer = c,
                  !.sid = s, !.ctype = type]

handleSSE(type, s) ==
    /\ Cardinality(DOMAIN chan) < cap.clients
    /\ ~(type = "agent" /\ AgentConnectThrows)
    /\ LET c == generateMessageId
           cl1 == (c :> [type |-> type, sessionId |-> s, ended |-> FALSE]) @@ clients
           ch1 == (c :> <<>>) @@ chan
           takeover == /\ type = "browser"
                       /\ s \in DOMAIN sessions
                       /\ sessions[s].browserClient # None
           old == sessions[s].browserClient
           ch2 == IF takeover
                  THEN sendToClient(ch1, cl1, old,
                                    createErrorResponse(IdDisconnect, SESSION_ERROR))
                  ELSE IF type = "agent"
                  THEN sendToClient(ch1, cl1, c,
                           [createResponse(IdSessions) EXCEPT !.list = SessionList])
                  ELSE ch1
           cl2 == IF takeover THEN EndIncumbent(cl1, old) ELSE cl1
       IN  /\ messageCounter' = c
           /\ clients' = cl2
           /\ sessions' = IF type = "browser"
                          THEN (s :> BrowserSession(s, c)) @@ sessions
                          ELSE sessions
           /\ keepAliveIntervals' = keepAliveIntervals \cup {c}
           /\ chan' = sendToClient(ch2, cl2, c, Connected(c, s, type))
           /\ ticks' = (c :> 0) @@ ticks
    /\ UNCHANGED <<pendingResponses, timers, hist, posts, cap, poster, http, cvars>>

\* a keep-alive callback that does not test writableEnded
KeepAliveWriteUnchecked(tk, cl, c) ==
    IF c \in DOMAIN cl THEN [tk EXCEPT ![c] = @ + 1] ELSE tk

\* the keep-alive interval callback of handleSSE
KeepAliveWrite(tk, cl, c) ==
    IF Writable(cl, c) THEN [tk EXCEPT ![c] = @ + 1] ELSE tk

Sum(f) == LET RECURSIVE S(_)
              S(D) == IF D = {} THEN 0
                      ELSE LET x == CHOOSE x \in D : TRUE IN f[x] + S(D \ {x})
          IN  S(DOMAIN f)

KeepAlive(c) ==
    /\ c \in keepAliveIntervals
    /\ Sum(ticks) < cap.ticks
    /\ ticks' = KeepAliveWrite(ticks, clients, c)
    /\ UNCHANGED <<sessions, clients, pendingResponses, timers, keepAliveIntervals,
                   messageCounter, chan, hist, posts, cap, poster, http, cvars>>

\* ------------------------------------------------------------- stop()
\* stop: the keep-alive intervals are cleared, every response is ended, the
\* clients and sessions maps are cleared.  The timeout timers stay armed, and
\* their callbacks keep the Session objects with their pending tables and
\* agentClients.
stop ==
    /\ keepAliveIntervals' = {}
    /\ clients' = Empty
    /\ sessions' = Empty
    /\ pendingResponses' =
          [i \in DOMAIN pendingResponses |->
              IF pendingResponses[i].live
              THEN [pendingResponses[i] EXCEPT
                       !.live = FALSE,
                       !.agents = Range(sessions[pendingResponses[i].sid].agentClients)]
              ELSE pendingResponses[i]]
    /\ stopped' = [channels |-> stopped.channels \cup DOMAIN chan,
                   timers |-> stopped.timers \cup DOMAIN timers]
    /\ UNCHANGED <<timers, messageCounter, chan, hist, posts, ticks, cap, poster, http,
                   bc, sources, backoff, requests, clog, parsed, peers>>

\* ------------------------------------------- disconnect (req.on('close'))
BrowserDisconnected(s) ==
    [Frame EXCEPT !.kind = "notify", !.method = "browser/disconnected", !.sid = s]

\* a removal that treats every closing client as a caller
LeaveSessionAsCaller(sess, s, c) == [sess EXCEPT ![s].agentClients = Remove(@, c)]

\* handleDisconnect: removal of client c from the session it attached with
LeaveSession(sess, s, c) ==
    IF sess[s].browserClient = c
    THEN [sess EXCEPT ![s].browserClient = None]
    ELSE [sess EXCEPT ![s].agentClients = Remove(@, c)]

handleDisconnect(c) ==
    /\ c \in DOMAIN clients
    /\ LET s == clients[c].sessionId
           has == s \in DOMAIN sessions
           wasBrowser == has /\ sessions[s].browserClient = c
           sess1 == IF has THEN LeaveSession(sessions, s, c) ELSE sessions
           empty == /\ has
                    /\ sess1[s].browserClient = None
                    /\ sess1[s].agentClients = <<>>
       IN  /\ chan' = IF wasBrowser
                      THEN sendToAll(chan, clients, sessions[s].agentClients,
                                     BrowserDisconnected(s))
                      ELSE chan
           /\ sessions' = IF empty THEN Restrict(sess1, DOMAIN sess1 \ {s}) ELSE sess1
           /\ pendingResponses' =
                 IF empty
                 THEN [i \in DOMAIN pendingResponses |->
                          IF pendingResponses[i].sid = s
                          THEN [pendingResponses[i] EXCEPT !.live = FALSE]
                          ELSE pendingResponses[i]]
                 ELSE pendingResponses
    /\ clients' = Restrict(clients, DOMAIN clients \ {c})
    /\ keepAliveIntervals' = keepAliveIntervals \ {c}
    /\ UNCHANGED <<timers, messageCounter, hist, posts, ticks, cap, poster, http, cvars>>

\* ------------------------------------------------ ingest (POST /message)
\* a sender lookup that ignores the clientId parameter
findSenderClientBySession(s, cid) ==
    IF s \in DOMAIN sessions /\ sessions[s].agentClients # <<>>
    THEN Head(sessions[s].agentClients)
    ELSE IF \E c \in DOMAIN clients : clients[c].sessionId = s
    THEN Min({c \in DOMAIN clients : clients[c].sessionId = s})
    ELSE None

\* findSenderClient: the client named by clientId, else the first agent of the
\* session, else the first client attached under that session id
findSenderClient(s, cid) ==
    IF cid # None
    THEN IF cid \in DOMAIN clients THEN cid ELSE None
    ELSE IF s \in DOMAIN sessions /\ sessions[s].agentClients # <<>>
    THEN Head(sessions[s].agentClients)
    ELSE IF \E c \in DOMAIN clients : clients[c].sessionId = s
    THEN Min({c \in DOMAIN clients : clients[c].sessionId = s})
    ELSE None

\* number of frames the step wrote to the SSE responses
FramesWritten == Sum([c \in DOMAIN chan |-> Len(chan'[c]) - Len(chan[c])])

\* an acknowledgement written ahead of routeMessage
AcknowledgedFirst(written) == [status |-> 200, after |-> 0, error |-> ""]

\* handleMessage: res.writeHead(200) once routeMessage has returned, that is
\* after the `written` frames routeMessage wrote
Acknowledged(written) == [status |-> 200, after |-> written, error |-> ""]

\* handleMessage: the 400 of the catch block, routeMessage not having written
Rejected(error) == [status |-> 400, after |-> 0, error |-> error]

\* a POST by client w, with or without its clientId, is accepted for routing
\* (handleMessage); posts counts the POSTs that changed the relay's state
Posted(w, cid) ==
    /\ posts < cap.posts
    /\ w \in DOMAIN clients
    /\ cid \in {None, w}
    /\ poster' = IF cap.trace THEN w ELSE None
    /\ UNCHANGED cvars

Counted ==
    /\ posts' = IF UNCHANGED <<sessions, clients, pendingResponses, timers,
                               keepAliveIntervals, messageCounter, chan, hist, ticks>>
                THEN posts ELSE posts + 1
    /\ UNCHANGED cap
    /\ http' = IF cap.http THEN Acknowledged(FramesWritten) ELSE http

\* session?.browserClient of routeMessage's session
BrowserOf(s) == IF s \in DOMAIN sessions THEN sessions[s].browserClient ELSE None

\* the request as forwarded to the browser: same request under the internal id
forwardedRequest(method, i) ==
    [Frame EXCEPT !.kind = "request", !.method = method, !.id = i, !.req = i]

\* handleToolsCall / handleToolsList with a browser connected: store the
\* mapping, forward under a fresh internal id, arm the timeout
Forward(w, cid, s, id, method) ==
    LET i == generateMessageId
        sender == findSenderClient(s, cid)
    IN  /\ messageCounter' = i
        /\ pendingResponses' =
              (i :> [sid |-> s, live |-> TRUE, agentId |-> sender, originalId |-> id,
                     agents |-> {}])
                 @@ pendingResponses
        /\ chan' = sendToClient(chan, clients, BrowserOf(s), forwardedRequest(method, i))
        /\ timers' = (i :> method) @@ timers
        /\ hist' = (i :> [who |-> cid, orig |-> id,
                          method |-> method, sid |-> s, prov |-> BrowserOf(s),
                          outcome |-> "pending"]) @@ hist
        /\ UNCHANGED <<sessions, clients, keepAliveIntervals, ticks>>

\* the reply to a request that is answered without forwarding: to the sender
\* when one was found, else to the first agent of the session
Reply(s, cid, m) ==
    LET sender == findSenderClient(s, cid)
    IN  /\ chan' = IF sender # None
                   THEN sendToClient(chan, clients, sender, m)
                   ELSE IF s \in DOMAIN sessions /\ sessions[s].agentClients # <<>>
                   THEN sendToClient(chan, clients, Head(sessions[s].agentClients), m)
                   ELSE chan
        /\ UNCHANGED <<sessions, clients, pendingResponses, timers,
                       keepAliveIntervals, messageCounter, hist, ticks>>

handleToolsCall(w, cid, s, id) ==
    /\ Posted(w, cid)
    /\ IF BrowserOf(s) = None
       THEN Reply(s, cid, createErrorResponse(id, SESSION_ERROR))
       ELSE Forward(w, cid, s, id, "tools/call")
    /\ Counted

handleToolsList(w, cid, s, id) ==
    /\ Posted(w, cid)
    /\ IF s \notin DOMAIN sessions
       THEN /\ chan' = IF findSenderClient(s, cid) # None
                       THEN sendToClient(chan, clients, findSenderClient(s, cid),
                                         createResponse(id))
                       ELSE chan
            /\ UNCHANGED <<sessions, clients, pendingResponses, timers,
                           keepAliveIntervals, messageCounter, hist, ticks>>
       ELSE IF BrowserOf(s) = None
       THEN Reply(s, cid, [createResponse(id) EXCEPT !.tools = sessions[s].tools])
       ELSE Forward(w, cid, s, id, "tools/list")
    /\ Counted

\* a response forwarded under the id it arrived with
forwardedResponseSameId(rid, code, p) ==
    [Frame EXCEPT !.kind = IF code = 0 THEN "result" ELSE "error",
                  !.code = code, !.id = rid, !.req = rid]

\* handleToolResponse: the response as forwarded, under the original id
forwardedResponse(rid, code, p) ==
    [Frame EXCEPT !.kind = IF code = 0 THEN "result" ELSE "error",
                  !.code = code, !.id = p.originalId, !.req = rid]

\* pendingResponses.delete(internalId)
DeletePending(pend, i) == Restrict(pend, DOMAIN pend \ {i})

\* a response handler that leaves the entry in the table
ResolvePendingKept(pend, i) == pend

\* handleToolResponse: session.pendingResponses.delete(String(response.id))
ResolvePending(pend, i) == DeletePending(pend, i)

\* a timeout callback that reaches the table through the sessions map, and so
\* misses the table of a deleted Session object
ExpirePendingIfMapped(pend, i) == IF pend[i].live THEN DeletePending(pend, i) ELSE pend

\* timeout callback: session.pendingResponses.delete(internalId)
ExpirePending(pend, i) == DeletePending(pend, i)

\* session.agentClients.get(agentId) of a Session object: a Session that
\* handleDisconnect deleted has no agents left, one that stop() cleared from
\* the sessions map keeps the agents it had
AgentOf(p) ==
    IF p.live
    THEN IF p.agentId \in Range(sessions[p.sid].agentClients) THEN p.agentId ELSE None
    ELSE IF p.agentId \in p.agents THEN p.agentId ELSE None

handleToolResponse(w, cid, s, rid, code) ==
    /\ Posted(w, cid)
    /\ IF rid \in PendingOf(s)
       THEN LET p == pendingResponses[rid]
            IN  /\ pendingResponses' = ResolvePending(pendingResponses, rid)
                /\ chan' = IF AgentOf(p) # None
                           THEN sendToClient(chan, clients, AgentOf(p),
                                             forwardedResponse(rid, code, p))
                           ELSE chan
                /\ hist' = [hist EXCEPT ![rid].outcome = "response"]
       ELSE UNCHANGED <<pendingResponses, chan, hist>>
    /\ UNCHANGED <<sessions, clients, timers, keepAliveIntervals, messageCounter, ticks>>
    /\ Counted

\* a timeout that sends the request once more
TimeoutMessageRetry(method, i, p) == forwardedRequest(method, i)

\* the setTimeout callbacks of handleToolsCall and handleToolsList
TimeoutMessage(method, i, p) ==
    IF method = "tools/list"
    THEN [createResponse(p.originalId) EXCEPT
             !.tools = IF p.live THEN sessions[p.sid].tools ELSE <<>>, !.req = i]
    ELSE [createErrorResponse(p.originalId, TIMEOUT_ERROR) EXCEPT !.req = i]

Timeout(i) ==
    /\ i \in DOMAIN timers
    /\ timers' = Restrict(timers, DOMAIN timers \ {i})
    /\ IF i \in DOMAIN pendingResponses
       THEN LET p == pendingResponses[i]
            IN  /\ pendingResponses' = ExpirePending(pendingResponses, i)
                /\ chan' = IF AgentOf(p) # None
                           THEN sendToClient(chan, clients, AgentOf(p),
                                             TimeoutMessage(timers[i], i, p))
                           ELSE chan
                /\ hist' = [hist EXCEPT ![i].outcome = "timeout"]
       ELSE UNCHANGED <<pendingResponses, chan, hist>>
    /\ UNCHANGED <<sessions, clients, keepAliveIntervals, messageCounter, posts, ticks, cap,
                   poster, http, cvars>>

\* handleSessionJoin: the client that sent the request
JoiningClient(s, cid) ==
    IF cid # None
    THEN IF cid \in DOMAIN clients THEN cid ELSE None
    ELSE IF \E c \in DOMAIN clients : clients[c].sessionId = s /\ clients[c].type = "agent"
    THEN Min({c \in DOMAIN clients : clients[c].sessionId = s /\ clients[c].type = "agent"})
    ELSE None

\* a join that opens the target session when the sessions map lacks it
handleSessionJoinCreating(w, cid, s, id, target) ==
    /\ Posted(w, cid)
    /\ LET client == JoiningClient(s, cid)
       IN  IF client = None
           THEN UNCHANGED <<sessions, chan>>
           ELSE /\ sessions' =
                      IF target \in DOMAIN sessions
                      THEN [sessions EXCEPT ![target].agentClients = Insert(@, client)]
                      ELSE (target :> [browserClient |-> None, agentClients |-> <<client>>,
                                       tools |-> <<>>]) @@ sessions
                /\ chan' = sendToClient(chan, clients, client,
                               [createResponse(id) EXCEPT
                                   !.sid = target,
                                   !.tools = IF target \in DOMAIN sessions
                                             THEN sessions[target].tools ELSE <<>>])
    /\ UNCHANGED <<clients, pendingResponses, timers, keepAliveIntervals,
                   messageCounter, hist, ticks>>
    /\ Counted

handleSessionJoin(w, cid, s, id, target) ==
    /\ Posted(w, cid)
    /\ LET client == JoiningClient(s, cid)
       IN  IF client = None
           THEN UNCHANGED <<sessions, chan>>
           ELSE IF target \notin DOMAIN sessions
           THEN /\ chan' = sendToClient(chan, clients, client,
                               [createErrorResponse(id, SESSION_ERROR) EXCEPT !.sid = target])
                /\ UNCHANGED sessions
           ELSE /\ sessions' = [sessions EXCEPT ![target].agentClients = Insert(@, client)]
                /\ chan' = sendToClient(chan, clients, client,
                               [createResponse(id) EXCEPT
                                   !.sid = target, !.tools = sessions[target].tools])
    /\ UNCHANGED <<clients, pendingResponses, timers, keepAliveIntervals,
                   messageCounter, hist, ticks>>
    /\ Counted

\* a tools/updated notification that carries no tools
ToolsUpdatedEmpty(tools) ==
    [Frame EXCEPT !.kind = "notify", !.method = "tools/updated"]

\* handleToolsRegister: the tools/updated notification
ToolsUpdated(tools) ==
    [Frame EXCEPT !.kind = "notify", !.method = "tools/updated", !.tools = tools]

handleToolsRegister(w, cid, s, id, tools) ==
    /\ Posted(w, cid)
    /\ IF BrowserOf(s) = None
       THEN UNCHANGED <<sessions, chan>>
       ELSE /\ sessions' = [sessions EXCEPT ![s].tools = tools]
            /\ chan' = sendToClient(
                          sendToAll(chan, clients, sessions[s].agentClients,
                                    ToolsUpdated(tools)),
                          clients, BrowserOf(s),
                          [createResponse(id) EXCEPT !.count = Len(tools)])
    /\ UNCHANGED <<clients, pendingResponses, timers, keepAliveIntervals,
                   messageCounter, hist, ticks>>
    /\ Counted

\* createPongResponse(id)
createPongResponse(id) == [createResponse(id) EXCEPT !.method = "pong"]

\* a ping handler that answers the provider of the session
handlePingToProvider(w, cid, s, id) ==
    /\ Posted(w, cid)
    /\ chan' = IF BrowserOf(s) # None
               THEN sendToClient(chan, clients, BrowserOf(s), createPongResponse(id))
               ELSE chan
    /\ UNCHANGED <<sessions, clients, pendingResponses, timers, keepAliveIntervals,
                   messageCounter, hist, ticks>>
    /\ Counted

\* handlePing: pong to the sender routeMessage resolved, else to the browser
handlePing(w, cid, s, id) ==
    /\ Posted(w, cid)
    /\ LET sender == findSenderClient(s, cid)
       IN  chan' = IF sender # None
                   THEN sendToClient(chan, clients, sender, createPongResponse(id))
                   ELSE IF BrowserOf(s) # None
                   THEN sendToClient(chan, clients, BrowserOf(s), createPongResponse(id))
                   ELSE chan
    /\ UNCHANGED <<sessions, clients, pendingResponses, timers, keepAliveIntervals,
                   messageCounter, hist, ticks>>
    /\ Counted

\* POST bodies: text that is not JSON, JSON that is no object, objects without
\* jsonrpc "2.0", a notification, a request with a method the relay does not
\* know, a tools/register without params, a tools/register whose params have
\* no tools list, and a tools/call request
Bodies ==
    { [MessageBody EXCEPT !.json = FALSE, !.object = FALSE, !.jsonrpc = ""],
      [MessageBody EXCEPT !.object = FALSE, !.jsonrpc = ""],
      [MessageBody EXCEPT !.jsonrpc = "", !.method = "tools/call"],
      [MessageBody EXCEPT !.jsonrpc = "1.0", !.method = "tools/call"],
      [MessageBody EXCEPT !.id = FALSE, !.method = "notifications/progress"],
      [MessageBody EXCEPT !.method = "resources/list"],
      [MessageBody EXCEPT !.method = "tools/register", !.params = FALSE],
      [MessageBody EXCEPT !.method = "tools/register", !.tools = FALSE],
      [MessageBody EXCEPT !.method = "tools/call"] }

\* a validity test that accepts every JSON object
isValidJsonRpcMessageAnyObject(body) == body.json /\ body.object

\* parseMessage succeeds: JSON.parse gave an object whose jsonrpc is '2.0'
isValidJsonRpcMessage(body) == body.json /\ body.object /\ body.jsonrpc = "2.0"

\* isRequest: has id and method
isRequest(body) == body.id /\ body.method # ""

\* a response test that looks at the id only
isResponseById(body) == body.id

\* isResponse: has id but no method
isResponse(body) == body.id /\ body.method = ""

\* isNotification: has method but no id
isNotification(body) == ~body.id /\ body.method # ""

\* a dispatch whose default case forwards the request to the provider
routeMessageForwarding(body) ==
    IF isResponse(body) THEN "response"
    ELSE IF ~isRequest(body) THEN "return"
    ELSE "tools/call"

\* routeMessage: the branch taken for a parsed message
routeMessage(body) ==
    IF isResponse(body) THEN "response"
    ELSE IF ~isRequest(body) THEN "return"
    ELSE IF body.method \in {"tools/register", "tools/list", "tools/call", "session/join",
                             "ping"}
    THEN body.method
    ELSE "default"

\* handleToolsRegister destructures request.params once it has found a browser
RouteThrows(s, body) ==
    /\ isRequest(body)
    /\ body.method = "tools/register"
    /\ ~body.params
    /\ BrowserOf(s) # None

\* handleToolsRegister for params that have no `tools`: session.tools is
\* assigned the undefined `tools`, then `tools.length` of the log line throws
RegisterThrows(s, body) ==
    /\ isRequest(body)
    /\ body.method = "tools/register"
    /\ body.params
    /\ ~body.tools
    /\ BrowserOf(s) # None

handleToolsRegisterThrowing(w, cid, s) ==
    /\ Posted(w, cid)
    /\ sessions' = [sessions EXCEPT ![s].tools = Undefined]
    /\ posts' = IF sessions' = sessions THEN posts ELSE posts + 1
    /\ http' = IF cap.http THEN Rejected("TypeError") ELSE http
    /\ UNCHANGED <<clients, pendingResponses, timers, keepAliveIntervals,
                   messageCounter, chan, hist, ticks, cap>>

\* handleMessage: a parse failure or an exception of routeMessage is answered
\* 400; a tools/call request is routed; a notification or a request with an
\* unknown method is acknowledged and routed nowhere
handleMessage(w, cid, s, body) ==
    /\ body \in Bodies
    /\ IF isValidJsonRpcMessage(body) /\ routeMessage(body) = "tools/call"
       THEN \E id \in OrigIds : handleToolsCall(w, cid, s, id)
       ELSE IF isValidJsonRpcMessage(body) /\ RegisterThrows(s, body)
       THEN handleToolsRegisterThrowing(w, cid, s)
       ELSE /\ Posted(w, cid)
            /\ http' = IF ~cap.http THEN http
                       ELSE IF ~isValidJsonRpcMessage(body)
                       THEN Rejected(IF body.json THEN "Invalid JSON-RPC message structure"
                                     ELSE "Failed to parse JSON-RPC message")
                       ELSE IF RouteThrows(s, body)
                       THEN Rejected("TypeError")
                       ELSE Acknowledged(0)
            /\ UNCHANGED <<sessions, clients, pendingResponses, timers,
                           keepAliveIntervals, messageCounter, chan, hist, posts,
                           ticks, cap>>

\* ------------------------------------------------------------------ Next
Agents == {c \in DOMAIN clients : clients[c].type = "agent"}
Browsers == {c \in DOMAIN clients : clients[c].type = "browser"}

\* Callers post tools/call, tools/list and session/join, with or without their
\* clientId; providers (evicted ones included) post tools/register and
\* responses into the session they attached to, without clientId, as
\* BTCPClient.sendMessage does.
Next ==
    \/ \E type \in ClientTypes, s \in SessionIds : handleSSE(type, s)
    \/ \E c \in DOMAIN clients : handleDisconnect(c)
    \/ \E c \in DOMAIN clients : KeepAlive(c)
    \/ \E i \in DOMAIN timers : Timeout(i)
    \/ \E w \in Agents : \E cid \in {None, w}, s \in SessionIds, id \in OrigIds :
          handleToolsCall(w, cid, s, id)
    \/ \E w \in Agents : \E cid \in {None, w}, s \in SessionIds, id \in OrigIds :
          handleToolsList(w, cid, s, id)
    \/ \E w \in Browsers, rid \in DOMAIN hist, code \in RespCodes :
          handleToolResponse(w, None, clients[w].sessionId, rid, code)
    \/ \E w \in Agents : \E cid \in {None, w}, s \in SessionIds, id \in OrigIds,
          target \in SessionIds : handleSessionJoin(w, cid, s, id, target)
    \/ \E w \in Browsers, id \in OrigIds, tools \in ToolLists :
          handleToolsRegister(w, None, clients[w].sessionId, id, tools)

\* the tools/call routing operations
NextTrio ==
    \/ \E type \in ClientTypes, s \in SessionIds : handleSSE(type, s)
    \/ \E c \in DOMAIN clients : handleDisconnect(c)
    \/ \E i \in DOMAIN timers : Timeout(i)
    \/ \E w \in Agents : \E cid \in {None, w}, s \in SessionIds, id \in OrigIds :
          handleToolsCall(w, cid, s, id)
    \/ \E w \in Browsers, rid \in DOMAIN hist, code \in RespCodes :
          handleToolResponse(w, None, clients[w].sessionId, rid, code)
    \/ \E w \in Agents : \E cid \in {None, w}, s \in SessionIds, id \in OrigIds,
          target \in SessionIds : handleSessionJoin(w, cid, s, id, target)

\* a provider (1) attached to X and two callers (2, 3) that attached under Y and
\* joined X with request id 101: the state after these three attaches and two
\* session/join requests
InitFanIn ==
    /\ sessions = ("X" :> [browserClient |-> 1, agentClients |-> <<2, 3>>, tools |-> <<>>])
    /\ clients = (1 :> [type |-> "browser", sessionId |-> "X", ended |-> FALSE])
                 @@ (2 :> [type |-> "agent", sessionId |-> "Y", ended |-> FALSE])
                 @@ (3 :> [type |-> "agent", sessionId |-> "Y", ended |-> FALSE])
    /\ pendingResponses = Empty
    /\ timers = Empty
    /\ keepAliveIntervals = {1, 2, 3}
    /\ messageCounter = 3
    /\ chan = (1 :> <<Connected(1, "X", "browser")>>)
              @@ [c \in {2, 3} |->
                    << [createResponse(IdSessions) EXCEPT
                           !.list = {[id |-> "X", toolCount |-> 0]}],
                       Connected(c, "Y", "agent"),
                       [createResponse(101) EXCEPT !.sid = "X"] >>]
    /\ hist = Empty
    /\ posts = 0
    /\ ticks = [c \in {1, 2, 3} |-> 0]
    /\ poster = None
    /\ stopped = [channels |-> {}, timers |-> {}]
    /\ RelayOnly
    /\ cap = [clients |-> 3, posts |-> MaxPosts + 1, ticks |-> 0, trace |-> FALSE,
              http |-> FALSE]

\* the tools/call traffic of attached peers
NextFanIn ==
    \/ \E c \in DOMAIN clients : handleDisconnect(c)
    \/ \E i \in DOMAIN timers : Timeout(i)
    \/ \E w \in Agents : \E cid \in {None, w}, s \in SessionIds, id \in OrigIds :
          handleToolsCall(w, cid, s, id)
    \/ \E w \in Browsers, rid \in DOMAIN hist, code \in RespCodes :
          handleToolResponse(w, None, clients[w].sessionId, rid, code)

\* routeMessage as the code dispatches it: whatever the role of the client that
\* POSTs, into whatever session id, with or without its clientId
NextOpen ==
    \/ \E type \in ClientTypes, s \in SessionIds : handleSSE(type, s)
    \/ \E c \in DOMAIN clients : handleDisconnect(c)
    \/ \E i \in DOMAIN timers : Timeout(i)
    \/ \E w \in DOMAIN clients : \E cid \in {None, w}, s \in SessionIds, id \in OrigIds :
          handleToolsCall(w, cid, s, id)
    \/ \E w \in DOMAIN clients : \E cid \in {None, w}, s \in SessionIds,
          rid \in DOMAIN hist, code \in RespCodes : handleToolResponse(w, cid, s, rid, code)
    \/ \E w \in DOMAIN clients : \E cid \in {None, w}, s \in SessionIds, id \in OrigIds,
          target \in SessionIds : handleSessionJoin(w, cid, s, id, target)
    \/ \E w \in DOMAIN clients : \E cid \in {None, w}, s \in SessionIds, id \in OrigIds,
          tools \in ToolLists : handleToolsRegister(w, cid, s, id, tools)
    \/ \E w \in DOMAIN clients : \E cid \in {None, w}, s \in SessionIds, id \in OrigIds :
          handlePing(w, cid, s, id)

\* two peers, any POST body, the HTTP response observed
InitHttp ==
    /\ Constructed
    /\ RelayOnly
    /\ cap = [clients |-> MaxClients, posts |-> MaxPosts - 1, ticks |-> 0,
              trace |-> TRUE, http |-> TRUE]

NextHttp ==
    \/ NextOpen
    \/ \E w \in DOMAIN clients : \E cid \in {None, w}, s \in SessionIds, body \in Bodies :
          handleMessage(w, cid, s, body)

Spec == Init /\ [][Next]_vars

SpecTrio == InitTrio /\ [][NextTrio]_vars

\* the relay with stop() called at any moment
NextStop == Next \/ stop
SpecStop == Init /\ [][NextStop]_vars

SpecFanIn == InitFanIn /\ [][NextFanIn]_vars

SpecOpen == InitOpen /\ [][NextOpen]_vars

SpecHttp == InitHttp /\ [][NextHttp]_vars

\* every armed setTimeout callback eventually runs
SpecLive == Init /\ [][Next]_vars /\ \A i \in 1..(MaxClients + MaxPosts) : WF_vars(Timeout(i))

\* ================================================================ claims
\* every frame of every SSE response, with the client it was written to
Frames ==
    UNION {{[to |-> c, f |-> chan[c][k]] : k \in 1..Len(chan[c])} : c \in DOMAIN chan}
FramesOf(c) == {chan[c][k] : k \in 1..Len(chan[c])}

\* the frames the relay pushed towards a caller for forwarded request i
PushedFor(i) == {x \in Frames : x.f.req = i /\ x.f.kind # "request"}

\* number of frames on all channels that answer forwarded request i
Deliveries(i) ==
    LET Count(c) == Cardinality({k \in 1..Len(chan[c]) :
                                    chan[c][k].req = i /\ chan[c][k].kind # "request"})
    IN  Sum([c \in DOMAIN chan |-> Count(c)])

\* browser clients attached to s whose SSE response is open
OpenProviders(s) ==
    {c \in DOMAIN clients :
        clients[c].type = "browser" /\ clients[c].sessionId = s /\ ~clients[c].ended}

\* the error frame sent to an evicted provider
TakeoverError == createErrorResponse(IdDisconnect, SESSION_ERROR)

\* C1: every frame pushed to a caller for a forwarded tools/call or tools/list
\* (the provider's response, the timeout error, the cached-list fallback)
\* carries the caller's original request id, never the relay-internal id.
C1_OriginalIdRestored ==
    \A x \in Frames :
        (x.f.req # None /\ x.f.kind # "request")
            => /\ x.f.id = hist[x.f.req].orig
               /\ x.f.id # x.f.req

\* a caller holds the provider's response to a request forwarded under another id
C1_Witness ==
    \E i \in DOMAIN hist : \E x \in PushedFor(i) :
        /\ hist[i].outcome = "response"
        /\ x.f.id = hist[i].orig
        /\ \E y \in Frames : y.f.kind = "request" /\ y.f.id = i /\ y.to = hist[i].prov

\* C3: a session never has more than one provider peer with an open push
\* channel, that peer is the session's browserClient, and right after a provider
\* attaches to an existing session the session's provider is the new peer.
C3_SingleProvider ==
    [][ /\ \A s \in SessionIds :
              /\ Cardinality(OpenProviders(s)') <= 1
              /\ \A c \in OpenProviders(s)' :
                    s \in DOMAIN sessions' /\ sessions'[s].browserClient = c
        /\ \A c \in DOMAIN clients' \ DOMAIN clients :
              (clients'[c].type = "browser" /\ clients'[c].sessionId \in DOMAIN sessions)
                  => sessions'[clients'[c].sessionId].browserClient = c ]_vars

\* a provider has replaced an incumbent, whose response is ended
C3_Witness ==
    \E a \in DOMAIN clients, b \in DOMAIN clients :
        /\ a # b
        /\ clients[a].type = "browser" /\ clients[b].type = "browser"
        /\ clients[a].sessionId = clients[b].sessionId
        /\ clients[a].ended
        /\ clients[a].sessionId \in DOMAIN sessions
        /\ sessions[clients[a].sessionId].browserClient = b

\* a session has an attached provider
HasProvider(s) == OpenProviders(s) # {}

\* a session has an attached caller: a member of its callers map whose push
\* channel is still attached
HasCaller(s) ==
    /\ s \in DOMAIN sessions
    /\ \E c \in Range(sessions[s].agentClients) : c \in DOMAIN clients

\* C4: the sessions map contains s iff s has an attached provider or at least
\* one attached caller; once the last attached peer has gone, s is not in the map.
C4_SessionIffPeers ==
    \A s \in SessionIds : (s \in DOMAIN sessions) <=> (HasProvider(s) \/ HasCaller(s))

\* C6: when the provider's response and the timeout timer race for a forwarded
\* request, a frame for the request is pushed only by the step that removes its
\* pending entry, the entry never comes back, and so at most one frame (never a
\* response and a timeout both) reaches a caller for it.
C6_ResolvedOnce ==
    [][ \A i \in DOMAIN hist :
          /\ Deliveries(i)' <= 1
          /\ (Deliveries(i)' # Deliveries(i))
                => (i \in DOMAIN pendingResponses /\ i \notin DOMAIN pendingResponses')
          /\ (i \notin DOMAIN pendingResponses) => (i \notin DOMAIN pendingResponses') ]_vars

\* the response won the race and the timer has fired since, finding no entry
C6_Witness ==
    \E i \in DOMAIN hist :
        /\ hist[i].outcome = "response"
        /\ i \notin DOMAIN timers
        /\ Deliveries(i) = 1

\* C7: at a takeover the incumbent is sent one error frame with code -32002 and
\* its channel is closed in the same step; nothing (no message, no keep-alive)
\* is written to a closed channel afterwards.
C7_TakeoverTerminal ==
    [][ /\ \A c \in DOMAIN clients' \ DOMAIN clients :
              \A old \in DOMAIN clients :
                 (/\ clients'[c].type = "browser"
                  /\ clients'[c].sessionId \in DOMAIN sessions
                  /\ sessions[clients'[c].sessionId].browserClient = old)
                     => /\ clients'[old].ended
                        /\ chan'[old] = Append(chan[old], TakeoverError)
                        /\ ticks'[old] = ticks[old]
        /\ \A c \in DOMAIN chan :
              (c \notin DOMAIN clients \/ clients[c].ended)
                  => /\ chan'[c] = chan[c]
                     /\ ticks'[c] = ticks[c]
                     /\ c \in DOMAIN clients' => clients'[c].ended ]_vars

\* an evicted provider whose last frame is the takeover error
C7_Witness ==
    \E c \in DOMAIN clients :
        /\ clients[c].ended
        /\ chan[c] # <<>>
        /\ chan[c][Len(chan[c])] = TakeoverError
        /\ Cardinality({k \in 1..Len(chan[c]) : chan[c][k].code = SESSION_ERROR}) = 1
C2_NoCrossDelivery ==
    \A x \in Frames :
        (x.f.req # None /\ x.f.kind # "request" /\ hist[x.f.req].who # None)
            => x.to = hist[x.f.req].who

\* two callers used the same original id and each holds the response to its own
C2_Witness ==
    \E i \in DOMAIN hist, j \in DOMAIN hist :
        /\ i # j
        /\ hist[i].who # None /\ hist[j].who # None /\ hist[i].who # hist[j].who
        /\ hist[i].orig = hist[j].orig
        /\ hist[i].outcome = "response" /\ hist[j].outcome = "response"
        /\ \E x \in PushedFor(i) : x.to = hist[i].who
        /\ \E y \in PushedFor(j) : y.to = hist[j].who

\* the state of InitFanIn, but for the exploration counters
FanInState ==
    /\ sessions = ("X" :> [browserClient |-> 1, agentClients |-> <<2, 3>>, tools |-> <<>>])
    /\ DOMAIN clients = {1, 2, 3}
    /\ clients[1] = [type |-> "browser", sessionId |-> "X", ended |-> FALSE]
    /\ clients[2] = [type |-> "agent", sessionId |-> "Y", ended |-> FALSE]
    /\ clients[3] = [type |-> "agent", sessionId |-> "Y", ended |-> FALSE]
    /\ pendingResponses = Empty /\ timers = Empty /\ hist = Empty
    /\ keepAliveIntervals = {1, 2, 3}
    /\ messageCounter = 3
    /\ chan[1] = <<Connected(1, "X", "browser")>>
    /\ \A c \in {2, 3} :
          chan[c] = << [createResponse(IdSessions) EXCEPT
                           !.list = {[id |-> "X", toolCount |-> 0]}],
                       Connected(c, "Y", "agent"),
                       [createResponse(101) EXCEPT !.sid = "X"] >>
    /\ ticks = [c \in {1, 2, 3} |-> 0]
\* what a timer firing for forwarded request i owes the caller that sent it:
\* the timeout error or, for tools/list, the session's cached tools, under the
\* caller's original id
TimeoutOwed(i) ==
    IF hist[i].method = "tools/list"
    THEN [createResponse(hist[i].orig) EXCEPT
             !.tools = IF hist[i].sid \in DOMAIN sessions
                       THEN sessions[hist[i].sid].tools ELSE <<>>,
             !.req = i]
    ELSE [createErrorResponse(hist[i].orig, TIMEOUT_ERROR) EXCEPT !.req = i]

\* the peer that POSTed forwarded request i named itself and is still attached
CallerAttached(i) == hist[i].who # None /\ Writable(clients, hist[i].who)

\* C9: when the timer of a forwarded request fires while its pending entry is
\* present, the entry is removed and the caller that sent the request is
\* pushed the timeout error (tools/call) or the cached tool list (tools/list)
\* with its original id.
C9_TimeoutReachesCaller ==
    [][ \A i \in DOMAIN timers :
          (Timeout(i) /\ i \in DOMAIN pendingResponses)
              => /\ i \notin DOMAIN pendingResponses'
                 /\ CallerAttached(i)
                       => chan'[hist[i].who] = Append(chan[hist[i].who], TimeoutOwed(i)) ]_vars

\* C10: a tools/call into a session without provider (or an unknown session)
\* creates no pending route, writes nothing to a provider channel, and the
\* sender is pushed a -32002 error with the request's id.
C10_NoProviderError ==
    [][ \A w \in Agents : \A cid \in {None, w}, s \in SessionIds, id \in OrigIds :
          (handleToolsCall(w, cid, s, id) /\ BrowserOf(s) = None)
              => /\ pendingResponses' = pendingResponses
                 /\ \A b \in Browsers : chan'[b] = chan[b]
                 /\ chan'[w] = Append(chan[w], createErrorResponse(id, SESSION_ERROR)) ]_vars

\* the pending route of i was forwarded to a provider that has been replaced
TakenOver(i) ==
    /\ i \in DOMAIN pendingResponses
    /\ pendingResponses[i].live
    /\ BrowserOf(hist[i].sid) \notin {None, hist[i].prov}

\* C8: a provider takeover leaves the session's pending routes in place, no
\* forwarded request is ever written to a channel other than that of the
\* provider it was forwarded to, and a route that outlives its provider times
\* out to the caller that sent the request.
C8_RoutesSurviveTakeover ==
    [][ /\ \A c \in DOMAIN clients' \ DOMAIN clients :
              (clients'[c].type = "browser" /\ BrowserOf(clients'[c].sessionId) # None)
                  => pendingResponses' = pendingResponses
        /\ \A c \in DOMAIN chan' : \A k \in 1..Len(chan'[c]) :
              chan'[c][k].kind = "request" => c = hist'[chan'[c][k].id].prov
        /\ \A i \in DOMAIN timers :
              (Timeout(i) /\ TakenOver(i))
                  => /\ i \notin DOMAIN pendingResponses'
                     /\ CallerAttached(i)
                           => chan'[hist[i].who] = Append(chan[hist[i].who], TimeoutOwed(i)) ]_vars
\* C11: a session/join naming a target absent from the sessions map pushes to
\* the caller that sent it (POSTing under the session id it attached with, with
\* or without its clientId) an error response with code -32002 naming the
\* target, creates no session and leaves every callers map unchanged.
C11_JoinUnknownTarget ==
    [][ \A w \in Agents : \A cid \in {None, w}, id \in OrigIds, target \in SessionIds :
          (/\ handleSessionJoin(w, cid, clients[w].sessionId, id, target)
           /\ target \notin DOMAIN sessions)
              => /\ chan'[w] = Append(chan[w],
                                  [createErrorResponse(id, SESSION_ERROR) EXCEPT !.sid = target])
                 /\ sessions' = sessions ]_vars
\* C12: a session/join naming an existing target adds the caller that sent it
\* (POSTing under the session id it attached with, with or without its
\* clientId) to the target's callers map and pushes to that caller a success
\* response with the target id and the target's tool list of that moment.
C12_JoinAdoptsSender ==
    [][ \A w \in Agents : \A cid \in {None, w}, id \in OrigIds, target \in SessionIds :
          (/\ handleSessionJoin(w, cid, clients[w].sessionId, id, target)
           /\ target \in DOMAIN sessions)
              => /\ w \in Range(sessions'[target].agentClients)
                 /\ chan'[w] = Append(chan[w],
                                  [createResponse(id) EXCEPT
                                      !.sid = target, !.tools = sessions[target].tools]) ]_vars
\* the frames written to client c's channel by the step
NewFrames(c) == {chan'[c][k] : k \in (Len(chan[c]) + 1)..Len(chan'[c])}

\* the notification a caller is owed when the list `tools` is registered
UpdateOwed(tools) ==
    [Frame EXCEPT !.kind = "notify", !.method = "tools/updated", !.tools = tools]

\* C13: a tools/register processed for a session with a provider replaces the
\* session's tool list by the posted list, sends every attached caller of the
\* session's callers map a tools/updated notification carrying that list in the
\* same step, and sends the provider a response to the request.
C13_RegisterNotifies ==
    [][ \A w \in DOMAIN clients : \A cid \in {None, w}, s \in SessionIds, id \in OrigIds,
           tools \in ToolLists :
          (handleToolsRegister(w, cid, s, id, tools) /\ BrowserOf(s) # None)
              => /\ sessions'[s].tools = tools
                 /\ \A a \in Range(sessions[s].agentClients) :
                       Writable(clients, a) => UpdateOwed(tools) \in NewFrames(a)
                 /\ [createResponse(id) EXCEPT !.count = Len(tools)]
                       \in NewFrames(BrowserOf(s)) ]_vars

\* a joined caller holds the tools/updated notification of a register whose
\* response the provider holds
C13_Witness ==
    \E s \in DOMAIN sessions, tools \in ToolLists :
        /\ sessions[s].tools = tools
        /\ BrowserOf(s) # None
        /\ \E id \in OrigIds :
              [createResponse(id) EXCEPT !.count = Len(tools)] \in FramesOf(BrowserOf(s))
        /\ \E a \in Range(sessions[s].agentClients) :
              a \in DOMAIN chan /\ UpdateOwed(tools) \in FramesOf(a)
\* C14: a session's tool list changes only in a step in which the session's
\* current provider POSTs (a tools/register); a POST by a caller or by any
\* other peer leaves it unchanged.
C14_ToolsOnlyByProvider ==
    [][ \A s \in DOMAIN sessions :
          (s \in DOMAIN sessions' /\ sessions'[s].tools # sessions[s].tools)
              => (poster' # None /\ poster' = sessions[s].browserClient) ]_vars
\* C15: a pending route is resolved by a response (and the response forwarded)
\* only in a step in which the session's current provider POSTs; a response
\* with a matching internal id POSTed by a caller or by an evicted provider
\* leaves the entry in place.
C15_ResolveOnlyByProvider ==
    [][ \A i \in DOMAIN pendingResponses :
          (i \notin DOMAIN pendingResponses' /\ hist'[i].outcome = "response")
              => (poster' # None /\ poster' = BrowserOf(pendingResponses[i].sid)) ]_vars
\* C16: a ping POSTed by a peer of either role under the session id it attached
\* with, with or without its clientId, is answered with a pong carrying the
\* request's id on that peer's own channel.
C16_PongToSender ==
    [][ \A w \in DOMAIN clients : \A cid \in {None, w}, id \in OrigIds :
          (handlePing(w, cid, clients[w].sessionId, id) /\ Writable(clients, w))
              => chan'[w] = Append(chan[w], [createResponse(id) EXCEPT !.method = "pong"]) ]_vars
\* the notification a caller of session s is owed when s loses its provider
DisconnectOwed(s) ==
    [Frame EXCEPT !.kind = "notify", !.method = "browser/disconnected", !.sid = s]

\* C17: when the push channel of a session's current provider closes, the
\* session's provider becomes none and every attached caller of the session's
\* callers map is sent a provider-disconnected notification carrying the
\* session id.
C17_ProviderCloseNotifies ==
    [][ \A c \in DOMAIN clients : \A s \in SessionIds :
          (handleDisconnect(c) /\ s = clients[c].sessionId /\ BrowserOf(s) = c)
              => /\ BrowserOf(s)' = None
                 /\ \A a \in Range(sessions[s].agentClients) :
                       (a # c /\ Writable(clients, a)) => DisconnectOwed(s) \in NewFrames(a) ]_vars

\* a session has lost its provider and a caller of it holds the notification
C17_Witness ==
    \E s \in DOMAIN sessions :
        /\ sessions[s].browserClient = None
        /\ \E a \in Range(sessions[s].agentClients) :
              a \in DOMAIN chan /\ DisconnectOwed(s) \in FramesOf(a)
\* C18: when a caller's push channel closes it is removed from the callers map
\* of every session it had joined, so no callers map holds a client that is
\* no longer attached.
C18_NoDetachedCaller ==
    \A s \in DOMAIN sessions :
        \A a \in Range(sessions[s].agentClients) : a \in DOMAIN clients

\* C19: a session enters the sessions map only in a step in which a provider
\* attaches with that session id; a caller attach, a session/join and any other
\* POST never add a session.
C19_CreatedByProviderAttach ==
    [][ \A s \in SessionIds :
          (s \notin DOMAIN sessions /\ s \in DOMAIN sessions')
              => \E c \in DOMAIN clients' \ DOMAIN clients :
                    /\ clients'[c].type = "browser"
                    /\ clients'[c].sessionId = s
                    /\ sessions'[s].browserClient = c ]_vars

\* a session exists, a caller has attached under another session id and asked
\* to join it, and the sessions map still lacks that id
C19_Witness ==
    /\ DOMAIN sessions # {}
    /\ \E a \in Agents : \E t \in SessionIds \ DOMAIN sessions, id \in OrigIds :
          /\ clients[a].sessionId = t
          /\ [createErrorResponse(id, SESSION_ERROR) EXCEPT !.sid = t] \in FramesOf(a)

\* C20: when the push channel of a provider drops while requests forwarded to
\* it are pending, each of them is failed towards its caller (here: a caller
\* that joined the session and sent its clientId) with a -32000 connection
\* error in that step instead of being left to its timeout.
C20_ProviderDropFailsPending ==
    [][ \A c \in DOMAIN clients : \A i \in DOMAIN pendingResponses :
          (/\ handleDisconnect(c)
           /\ pendingResponses[i].live
           /\ hist[i].prov = c
           /\ BrowserOf(hist[i].sid) = c
           /\ CallerAttached(i)
           /\ AgentOf(pendingResponses[i]) = hist[i].who)
              => [createErrorResponse(hist[i].orig, CONNECTION_ERROR) EXCEPT !.req = i]
                    \in NewFrames(hist[i].who) ]_vars

\* C26 (as amended): a provider's channel starts with the `connected`
\* notification; a caller's channel starts with the sessions-list response and
\* has `connected` second.  In both the notification carries the peer's own
\* relay-assigned id and the session id and role it attached with.
FirstFramesOf(ch, c) ==
    \/ ch[c] = <<>>
    \/ /\ ch[c][1].kind = "notify"
       /\ ch[c][1].method = "connected"
       /\ ch[c][1].peer = c
       /\ ch[c][1].ctype = "browser"
    \/ /\ Len(ch[c]) >= 2
       /\ ch[c][1].kind = "result"
       /\ ch[c][1].id = IdSessions
       /\ ch[c][2].kind = "notify"
       /\ ch[c][2].method = "connected"
       /\ ch[c][2].peer = c
       /\ ch[c][2].ctype = "agent"

C26_ConnectedFirstNotification ==
    [][ \A c \in DOMAIN chan' :
          /\ FirstFramesOf(chan', c)
          /\ c \notin DOMAIN chan =>
                LET n == chan'[c][Len(chan'[c])]
                IN  /\ chan'[c] # <<>>
                    /\ c \in DOMAIN clients'
                    /\ n.method = "connected"
                    /\ n.sid = clients'[c].sessionId
                    /\ n.ctype = clients'[c].type ]_vars

\* a provider and a caller have attached and each has received its frames
C26_Witness ==
    /\ \E c \in Browsers : chan[c] # <<>> /\ chan[c][1].method = "connected"
    /\ \E c \in Agents : Len(chan[c]) >= 2 /\ chan[c][2].method = "connected"

\* C26 as stated: whatever the role, the first frame of a channel is the
\* `connected` notification
C26_ConnectedFirstFrame ==
    \A c \in DOMAIN chan :
        chan[c] # <<>> => chan[c][1].kind = "notify" /\ chan[c][1].method = "connected"

\* C27: a POST whose body is not JSON, or is no object, or lacks
\* jsonrpc = "2.0", is answered 400, writes no frame on any channel and
\* changes nothing of the sessions, the clients or the pending routes.
Malformed(body) == ~body.json \/ ~body.object \/ body.jsonrpc # "2.0"

C27_MalformedRejected ==
    [][ \A w \in DOMAIN clients : \A cid \in {None, w}, s \in SessionIds, body \in Bodies :
          (handleMessage(w, cid, s, body) /\ Malformed(body))
             => /\ http'.status = 400
                /\ chan' = chan
                /\ UNCHANGED <<sessions, clients, pendingResponses, timers>> ]_vars

\* a malformed body that names a method was POSTed into a session with a
\* provider and answered 400
C27_Witness ==
    /\ http.status = 400
    /\ http.error = "Invalid JSON-RPC message structure"
    /\ poster \in Agents
    /\ BrowserOf(clients[poster].sessionId) # None

\* C28 (as amended): a POST that changes the relay's state and is acknowledged
\* with 200 is acknowledged after routeMessage has returned: every frame the
\* message causes in that step (pong, join response, error, forwarded request,
\* tools/updated) is on its channel before the acknowledgement is written.
WrittenInStep ==
    UNION {{<<c, k>> : k \in (Len(chan[c]) + 1)..Len(chan'[c])} : c \in DOMAIN chan}

C29_NotificationForwarded ==
    [][ \A w \in DOMAIN clients : \A cid \in {None, w}, s \in SessionIds, body \in Bodies :
          (/\ handleMessage(w, cid, s, body)
           /\ body.json /\ body.object /\ body.jsonrpc = "2.0"
           /\ ~body.id /\ body.method # ""
           /\ clients[w].type = "agent"
           /\ s = clients[w].sessionId
           /\ BrowserOf(s) # None
           /\ Writable(clients, BrowserOf(s)))
             => \E p \in DOMAIN chan :
                   /\ p = BrowserOf(s)
                   /\ Len(chan'[p]) = Len(chan[p]) + 1
                   /\ chan'[p][Len(chan'[p])].method = body.method
                   /\ pendingResponses' = pendingResponses ]_vars

\* ============================================================== BTCPClient
\* The provider-side client library.  The relay is its environment: whether an
\* EventSource opens or fails, whether a POST succeeds, and what arrives on
\* the stream are chosen freely.

\* everything of the relay, which the client's steps leave alone
svars == <<sessions, clients, pendingResponses, timers, keepAliveIntervals,
           messageCounter, chan, hist, posts, ticks, cap, poster, http, parsed,
           peers, stopped>>

\* new EventSourceImpl(url) inside connect(): the request is under way
\* (phase "request"), connect()'s promise is unsettled and its connection
\* timeout is armed; cause tells who called connect()
EventSourceImpl(cause) ==
    [readyState |-> 0, phase |-> "request", cause |-> cause,
     settled |-> FALSE, timeout |-> TRUE]

\* EventSource.close() of the Node implementation: only readyState changes
close(src, n) == IF n = None THEN src ELSE [src EXCEPT ![n].readyState = 2]

\* removal of the i-th pending setTimeout
Cleared(s, i) == [k \in 1..(Len(s) - 1) |-> IF k < i THEN s[k] ELSE s[k + 1]]

\* a back-off that does not grow
DelayConstant(k) == reconnectDelay

\* reconnectDelay * Math.pow(2, reconnectAttempts - 1)
Delay(k) == reconnectDelay * 2 ^ (k - 1)

\* handleReconnect, as a function of the client state it reads and writes
handleReconnect(b, bo, lg) ==
    IF ~b.autoReconnect
    THEN [bc |-> b, backoff |-> bo, clog |-> lg]
    ELSE IF b.reconnectAttempts >= maxReconnectAttempts
    THEN [bc |-> b, backoff |-> bo, clog |-> [lg EXCEPT !.errors = 1]]
    ELSE LET k == b.reconnectAttempts + 1
         IN  [bc |-> [b EXCEPT !.reconnectAttempts = k],
              backoff |-> Append(bo, Delay(k)),
              clog |-> [lg EXCEPT !.sched = Append(@, Delay(k))]]

\* reject(...) of the promise of the connect() call that created source n: a
\* settled promise ignores it; the back-off callback's .catch calls
\* handleReconnect
RejectConnect(src, n, b, bo, lg) ==
    IF ~src[n].settled /\ src[n].cause = "backoff"
    THEN handleReconnect(b, bo, lg)
    ELSE [bc |-> b, backoff |-> bo, clog |-> lg]

\* connect() called by the application while not connected
connect ==
    /\ ~bc.connected
    /\ Len(sources) < cap.sources
    /\ sources' = Append(sources, EventSourceImpl("app"))
    /\ bc' = [bc EXCEPT !.eventSource = Len(sources) + 1]
    /\ clog' = [clog EXCEPT !.terminal = FALSE]
    /\ UNCHANGED <<backoff, requests, svars>>

\* eventSource.onopen of the source created by the n-th connect()
onopen(n) ==
    /\ n \in DOMAIN sources
    /\ sources[n].phase = "request"
    /\ sources' = [sources EXCEPT ![n].phase = "stream", ![n].readyState = 1,
                                  ![n].timeout = FALSE, ![n].settled = TRUE]
    /\ bc' = [bc EXCEPT !.connected = TRUE, !.reconnectAttempts = 0]
    /\ clog' = [clog EXCEPT !.sched = <<>>, !.errors = 0]
    /\ UNCHANGED <<backoff, requests, svars>>

\* eventSource.onerror of source n: the request failed, or the stream ended
onerror(n) ==
    /\ n \in DOMAIN sources
    /\ sources[n].phase \in {"request", "stream"}
    /\ LET src == [sources EXCEPT ![n].phase = "done", ![n].readyState = 2,
                                  ![n].timeout = FALSE, ![n].settled = TRUE]
           b == [bc EXCEPT !.connected = FALSE]
           r == IF bc.connected
                THEN handleReconnect(b, backoff, clog)
                ELSE RejectConnect(sources, n, b, backoff, clog)
       IN  /\ sources' = src
           /\ bc' = r.bc
           /\ backoff' = r.backoff
           /\ clog' = r.clog
    /\ UNCHANGED <<requests, svars>>

\* the connectionTimeout callback of the n-th connect()
connectionTimeout(n) ==
    /\ n \in DOMAIN sources
    /\ sources[n].timeout
    /\ LET b == [bc EXCEPT !.eventSource = None]
           r == RejectConnect(sources, n, b, backoff, clog)
       IN  /\ sources' = [close(sources, bc.eventSource) EXCEPT
                              ![n].timeout = FALSE, ![n].settled = TRUE]
           /\ bc' = r.bc
           /\ backoff' = r.backoff
           /\ clog' = r.clog
    /\ UNCHANGED <<requests, svars>>

\* disconnect(): requests and timers are not touched
disconnect ==
    /\ sources' = close(sources, bc.eventSource)
    /\ bc' = [bc EXCEPT !.eventSource = None, !.connected = FALSE,
                        !.reconnectAttempts = maxReconnectAttempts]
    /\ clog' = [clog EXCEPT !.terminal = TRUE]
    /\ UNCHANGED <<backoff, requests, svars>>

\* the setTimeout callback of handleReconnect: this.connect()
reconnect(i) ==
    /\ i \in DOMAIN backoff
    /\ backoff' = Cleared(backoff, i)
    /\ IF bc.connected
       THEN UNCHANGED <<sources, bc, clog>>
       ELSE /\ Len(sources) < cap.sources
            /\ sources' = Append(sources, EventSourceImpl("backoff"))
            /\ bc' = [bc EXCEPT !.eventSource = Len(sources) + 1]
            /\ UNCHANGED clog
    /\ UNCHANGED <<requests, svars>>

\* the tools of the executor: echo's handler returns, boom's handler throws
Handlers == {"echo", "boom"}
ToolNames == Handlers \cup {"nope"}

\* what arrives as the data of an SSE event
Inbound ==
    {[kind |-> "garbage", id |-> None, error |-> FALSE, method |-> "", name |-> ""]}
    \cup {[kind |-> "response", id |-> i, error |-> e, method |-> "", name |-> ""] :
             i \in 1..(MaxRequests + 1), e \in BOOLEAN}
    \cup {[kind |-> "request", id |-> 1, error |-> FALSE, method |-> "tools/call",
           name |-> n] : n \in ToolNames}
    \cup {[kind |-> "request", id |-> 1, error |-> FALSE, method |-> m, name |-> ""] :
             m \in {"ping", "resources/list"}}

\* a settled promise ignores resolve and reject
Settle(r, state, kind) ==
    IF r.state = "pending" THEN [r EXCEPT !.state = state, !.kind = kind] ELSE r

\* request(): the entry is stored, its timer armed and the POST started
request ==
    /\ Len(requests) < cap.requests
    /\ requests' = Append(requests, [state |-> "pending", kind |-> "", entry |-> TRUE,
                                     timer |-> TRUE, post |-> "flight"])
    /\ UNCHANGED <<bc, sources, backoff, clog, svars>>

\* the POST of request i finishes; sendMessage's rejection runs the .catch
sendMessage(i, ok) ==
    /\ i \in DOMAIN requests
    /\ requests[i].post = "flight"
    /\ requests' = IF ok
                   THEN [requests EXCEPT ![i].post = "ok"]
                   ELSE [requests EXCEPT
                            ![i] = [Settle(@, "rejected", "connection") EXCEPT
                                       !.post = "failed", !.timer = FALSE,
                                       !.entry = FALSE]]
    /\ UNCHANGED <<bc, sources, backoff, clog, svars>>

\* the timeout callback of request i
requestTimeout(i) ==
    /\ i \in DOMAIN requests
    /\ requests[i].timer
    /\ requests' = [requests EXCEPT
                       ![i] = [Settle(@, "rejected", "timeout") EXCEPT
                                  !.timer = FALSE, !.entry = FALSE]]
    /\ UNCHANGED <<bc, sources, backoff, clog, svars>>

\* a handleResponse that leaves the entry in the map
handleResponseKept(rq, m) ==
    IF m.id \in DOMAIN rq /\ rq[m.id].entry
    THEN [rq EXCEPT ![m.id] = [Settle(@, IF m.error THEN "rejected" ELSE "resolved",
                                      IF m.error THEN "error" ELSE "")
                                  EXCEPT !.timer = FALSE]]
    ELSE rq

\* handleResponse: a pending entry is removed, its timer cleared and its
\* resolve wrapper called; without an entry nothing happens
handleResponse(rq, m) ==
    IF m.id \in DOMAIN rq /\ rq[m.id].entry
    THEN [rq EXCEPT ![m.id] = [Settle(@, IF m.error THEN "rejected" ELSE "resolved",
                                      IF m.error THEN "error" ELSE "")
                                  EXCEPT !.timer = FALSE, !.entry = FALSE]]
    ELSE rq

\* ToolExecutor.execute: the code of the error it throws, None if it returns
execute(name) ==
    IF name \notin Handlers THEN TOOL_NOT_FOUND
    ELSE IF name = "boom" THEN EXECUTION_ERROR
    ELSE None

\* createToolCallErrorResponse(id, errorMessage, code = -32603)
createToolCallErrorResponse(code) ==
    [kind |-> "error", isError |-> TRUE, content |-> 1, code |-> code]

\* handleToolCall: the error's message is passed on, its code is not
handleToolCall(m) ==
    IF execute(m.name) = None
    THEN [kind |-> "result", isError |-> FALSE, content |-> 1, code |-> None]
    ELSE createToolCallErrorResponse(INTERNAL_ERROR)

\* the response handleRequest builds in its try block
Response(m) ==
    IF m.method = "tools/call" THEN handleToolCall(m)
    ELSE IF m.method = "ping"
    THEN [kind |-> "result", isError |-> FALSE, content |-> 0, code |-> None]
    ELSE [kind |-> "error", isError |-> FALSE, content |-> 0, code |-> METHOD_NOT_FOUND]

\* handleRequest: the response is POSTed; if that POST fails, an
\* INTERNAL_ERROR response is POSTed from the catch block, and if that fails
\* too the rejection of the async function is handled by nobody
handleRequest(lg, m, ok1, ok2) ==
    IF ok1
    THEN [lg EXCEPT !.posted = <<Response(m)>>]
    ELSE [lg EXCEPT !.posted = <<Response(m),
                                 [kind |-> "error", isError |-> FALSE, content |-> 0,
                                  code |-> INTERNAL_ERROR]>>,
                    !.unhandled = IF ok2 THEN @ ELSE 1]

\* eventSource.onmessage of source n: handleMessage(data)
onmessage(n, m, ok1, ok2) ==
    /\ n \in DOMAIN sources
    /\ sources[n].phase = "stream"
    /\ clog.inbound < cap.inbound
    /\ m \in Inbound
    /\ requests' = IF m.kind = "response" THEN handleResponse(requests, m) ELSE requests
    /\ clog' = [(IF m.kind = "request" THEN handleRequest(clog, m, ok1, ok2) ELSE clog)
                   EXCEPT !.inbound = @ + 1]
    /\ UNCHANGED <<bc, sources, backoff, svars>>

\* the connection life cycle of one client: no request() and no inbound message
InitClient ==
    /\ Constructed
    /\ http = Unanswered
    /\ cap = [clients |-> 0, posts |-> 0, ticks |-> 0, trace |-> FALSE, http |-> FALSE,
              sources |-> MaxSources, requests |-> 0, inbound |-> 0]
    /\ \E autoReconnect \in BOOLEAN : ClientConstructed(autoReconnect)
    /\ parsed = Unclassified
    /\ peers = NoPeers

\* one client used for request() and for serving inbound requests, with one
\* reconnection
InitRequests ==
    /\ Constructed
    /\ http = Unanswered
    /\ cap = [clients |-> 0, posts |-> 0, ticks |-> 0, trace |-> FALSE, http |-> FALSE,
              sources |-> 2, requests |-> MaxRequests, inbound |-> MaxInbound]
    /\ \E autoReconnect \in BOOLEAN : ClientConstructed(autoReconnect)
    /\ parsed = Unclassified
    /\ peers = NoPeers

Connection ==
    \/ connect
    \/ disconnect
    \/ \E n \in DOMAIN sources : onopen(n)
    \/ \E n \in DOMAIN sources : onerror(n)
    \/ \E n \in DOMAIN sources : connectionTimeout(n)
    \/ \E i \in DOMAIN backoff : reconnect(i)

NextClient == Connection

NextRequests ==
    \/ Connection
    \/ request
    \/ \E i \in DOMAIN requests, ok \in BOOLEAN : sendMessage(i, ok)
    \/ \E i \in DOMAIN requests : requestTimeout(i)
    \/ \E n \in DOMAIN sources, m \in Inbound :
          \E ok1 \in (IF m.kind = "request" THEN BOOLEAN ELSE {TRUE}) :
             \E ok2 \in (IF ok1 THEN {TRUE} ELSE BOOLEAN) : onmessage(n, m, ok1, ok2)

SpecClient == InitClient /\ [][NextClient]_vars

SpecRequests == InitRequests /\ [][NextRequests]_vars

\* C21: when disconnect() is called while request() calls are in flight,
\* each of them is rejected with a connection error in that step, and its
\* pending entry and its timer are removed.
C21_DisconnectRejectsPending ==
    [][ disconnect =>
          \A i \in DOMAIN requests :
              requests[i].state = "pending"
                 => /\ requests'[i].state = "rejected"
                    /\ requests'[i].kind = "connection"
                    /\ ~requests'[i].entry
                    /\ ~requests'[i].timer ]_vars

\* C22: once disconnect() has been called, the client is not connected again
\* until the application calls connect().
C22_DisconnectTerminal == clog.terminal => ~bc.connected

\* handleReconnect is called in this step: an open connection is lost, or the
\* connect() of a back-off callback fails or times out
ReconnectCalled ==
    \E n \in DOMAIN sources :
        \/ onerror(n) /\ bc.connected
        \/ /\ (onerror(n) /\ ~bc.connected) \/ connectionTimeout(n)
           /\ ~sources[n].settled
           /\ sources[n].cause = "backoff"

Answered(i, error) ==
    /\ clog'.inbound = clog.inbound + 1
    /\ \E n \in DOMAIN sources :
          onmessage(n, [kind |-> "response", id |-> i, error |-> error, method |-> "",
                        name |-> ""], TRUE, TRUE)

\* C24: a request is pending exactly as long as its entry and its timer
\* exist; it settles once and keeps its outcome: resolved by a matching
\* success response, rejected by a matching error response, by its timeout or
\* by the failure of its POST; a response that matches no pending entry
\* changes nothing.
C24_SettlesOnce ==
    [][ /\ \A i \in DOMAIN requests' :
             /\ (requests'[i].state = "pending") = requests'[i].entry
             /\ requests'[i].entry = requests'[i].timer
        /\ \A i \in DOMAIN requests :
             /\ requests[i].state # "pending"
                   => /\ requests'[i].state = requests[i].state
                      /\ requests'[i].kind = requests[i].kind
             /\ requests[i].state = "pending"
                   => /\ Answered(i, FALSE) => requests'[i].state = "resolved"
                      /\ Answered(i, TRUE)
                            => requests'[i].state = "rejected" /\ requests'[i].kind = "error"
                      /\ requestTimeout(i)
                            => requests'[i].state = "rejected" /\ requests'[i].kind = "timeout"
                      /\ sendMessage(i, FALSE)
                            => /\ requests'[i].state = "rejected"
                               /\ requests'[i].kind = "connection"
                      /\ requests'[i].state # "pending"
                            => \/ Answered(i, FALSE) \/ Answered(i, TRUE)
                               \/ requestTimeout(i) \/ sendMessage(i, FALSE)
        /\ \A i \in 1..(MaxRequests + 1), e \in BOOLEAN :
             (Answered(i, e) /\ (i \notin DOMAIN requests \/ requests[i].state # "pending"))
                => requests' = requests ]_vars

\* one request was resolved by its response, another rejected by its timeout,
\* and as many messages arrived as there were requests
C24_Witness ==
    /\ \E i, j \in DOMAIN requests :
          /\ requests[i].state = "resolved"
          /\ requests[j].state = "rejected"
          /\ requests[j].kind = "timeout"
    /\ clog.inbound >= Len(requests)

\* C25: when the tools/call handler fails, the response POSTed has
\* result.isError = true with one text item, and an error whose code is
\* -32004 if no handler is registered under the name and -32003 if the
\* handler threw.
C25_ToolFailureCode ==
    [][ \A n \in DOMAIN sources, name \in {"nope", "boom"}, ok1, ok2 \in BOOLEAN :
          onmessage(n, [kind |-> "request", id |-> 1, error |-> FALSE,
                        method |-> "tools/call", name |-> name], ok1, ok2)
             => /\ clog'.posted # <<>>
                /\ clog'.posted[1].isError
                /\ clog'.posted[1].content = 1
                /\ clog'.posted[1].code = IF name = "nope" THEN TOOL_NOT_FOUND
                                          ELSE EXECUTION_ERROR ]_vars

\* C30: the dispatch of an inbound request never ends in an unhandled
\* rejection, whatever the tool handler throws and whether or not the POSTs
\* of the response succeed.
C30_NoUnhandledRejection == clog.unhandled = 0

\* the places <<channel, position>> holding a forwarded request
RequestPlaces ==
    UNION {{<<c, k>> : k \in {j \in 1..Len(chan[c]) : chan[c][j].kind = "request"}} :
              c \in DOMAIN chan}

C32_IdsDistinct ==
    [][ /\ \A type \in ClientTypes, s \in SessionIds :
             handleSSE(type, s)
                => \E c \in DOMAIN clients' :
                      /\ c \notin DOMAIN chan \cup DOMAIN hist
                      /\ DOMAIN chan' = DOMAIN chan \cup {c}
        /\ \A i \in DOMAIN pendingResponses' \ DOMAIN pendingResponses :
             /\ i \notin DOMAIN chan \cup DOMAIN hist
             /\ Restrict(pendingResponses', DOMAIN pendingResponses) = pendingResponses
        /\ (DOMAIN hist' \cap DOMAIN chan' = {})
        /\ Cardinality(DOMAIN hist') + Cardinality(DOMAIN chan') = messageCounter' ]_vars

\* two peers have attached and two routes have been created
C32_Witness ==
    /\ Cardinality(DOMAIN chan) >= 2
    /\ Cardinality(DOMAIN hist) >= 2
    /\ \E i \in DOMAIN hist : hist[i].sid # hist[Min(DOMAIN hist)].sid

\* C33: a well-formed request whose method is none of tools/register,
\* tools/list, tools/call, session/join and ping writes no frame on any
\* channel and leaves sessions, clients, pending routes and timers as they
\* were; the POST is acknowledged.
C33_UnknownMethodDropped ==
    [][ \A w \in DOMAIN clients : \A cid \in {None, w}, s \in SessionIds, body \in Bodies :
          (/\ handleMessage(w, cid, s, body)
           /\ body.json /\ body.object /\ body.jsonrpc = "2.0"
           /\ body.id
           /\ body.method \notin {"", "tools/register", "tools/list", "tools/call",
                                  "session/join", "ping"})
             => /\ chan' = chan
                /\ UNCHANGED <<sessions, clients, pendingResponses, timers, hist>>
                /\ http'.status = 200 ]_vars

\* a caller attached to a session with an open provider has POSTed and been
\* acknowledged without any frame having been written for it
C33_Witness ==
    /\ poster \in Agents
    /\ BrowserOf(clients[poster].sessionId) # None
    /\ Writable(clients, BrowserOf(clients[poster].sessionId))
    /\ http = [status |-> 200, after |-> 0, error |-> ""]
    /\ pendingResponses = Empty


\* ------------------------------------------------- the message type guards
\* the key sets a parsed message can have: with or without id, params, result
\* and error, and without method or with one of the protocol's methods
Methods == {"", "tools/register", "tools/list", "tools/call", "session/join",
            "ping", "notifications/progress"}
Messages ==
    { [MessageBody EXCEPT !.id = i, !.method = m, !.params = p,
                          !.result = r, !.error = e] :
        i \in BOOLEAN, m \in Methods, p \in BOOLEAN, r \in BOOLEAN, e \in BOOLEAN }

\* the three guards applied to the parsed message
classify ==
    /\ ~parsed.done
    /\ LET m == parsed.message
       IN  parsed' = [done |-> TRUE, message |-> m, isRequest |-> isRequest(m),
                      isResponse |-> isResponse(m),
                      isNotification |-> isNotification(m)]
    /\ UNCHANGED <<sessions, clients, pendingResponses, timers, keepAliveIntervals,
                   messageCounter, chan, hist, posts, ticks, cap, poster, http,
                   bc, sources, backoff, requests, clog, peers, stopped>>

\* any one parsed message, not yet classified
InitGuards ==
    /\ Constructed
    /\ ClientConstructed(TRUE)
    /\ http = Unanswered
    /\ cap = [clients |-> 0, posts |-> 0, ticks |-> 0, trace |-> FALSE, http |-> FALSE,
              sources |-> 0, requests |-> 0, inbound |-> 0]
    /\ \E m \in Messages : parsed = [Unclassified EXCEPT !.message = m]
    /\ peers = NoPeers
NextGuards == classify
SpecGuards == InitGuards /\ [][NextGuards]_vars

\* C34: for every parsed message at most one of isRequest, isResponse and
\* isNotification holds; exactly one holds when the message has an id or a
\* method; the one that holds is request for id and method, response for id
\* without method, notification for method without id.
C34_GuardsExclusive ==
    parsed.done =>
        LET hasId == parsed.message.id
            hasMethod == parsed.message.method # ""
            holding == {g \in {"request", "response", "notification"} :
                            \/ g = "request" /\ parsed.isRequest
                            \/ g = "response" /\ parsed.isResponse
                            \/ g = "notification" /\ parsed.isNotification}
        IN  /\ Cardinality(holding) <= 1
            /\ (hasId \/ hasMethod) => Cardinality(holding) = 1
            /\ (hasId /\ hasMethod) => holding = {"request"}
            /\ (hasId /\ ~hasMethod) => holding = {"response"}
            /\ (~hasId /\ hasMethod) => holding = {"notification"}
            /\ (~hasId /\ ~hasMethod) => holding = {}

\* a request that also carries a result key has been classified
C34_Witness ==
    /\ parsed.done
    /\ parsed.message.id
    /\ parsed.message.method = "tools/call"
    /\ parsed.message.result
    /\ parsed.isRequest

\* C35: when the close event of a provider evicted by a takeover is processed,
\* whatever happened in between, it does not clear any session's current
\* provider, writes no browser/disconnected notification (no frame at all), and
\* deletes no session that has a provider or a caller other than the closing
\* peer.
C35_EvictedCloseHarmless ==
    [][ \A c \in DOMAIN clients :
          (clients[c].type = "browser" /\ clients[c].ended /\ handleDisconnect(c)) =>
              /\ chan' = chan
              /\ \A s \in DOMAIN sessions :
                    (\/ sessions[s].browserClient # None
                     \/ Range(sessions[s].agentClients) \ {c} # {}) =>
                        /\ s \in DOMAIN sessions'
                        /\ sessions'[s].browserClient = sessions[s].browserClient
                        /\ Range(sessions'[s].agentClients) =
                              Range(sessions[s].agentClients) \ {c} ]_vars

\* the evicted provider's close has been processed (its channel ends with the
\* takeover error and it is gone from the clients map) while its successor is
\* the provider of a session that has a caller
C35_Witness ==
    \E c \in DOMAIN chan \ DOMAIN clients :
        /\ Len(chan[c]) > 0
        /\ chan[c][Len(chan[c])].kind = "error"
        /\ chan[c][Len(chan[c])].id = IdDisconnect
        /\ \E s \in DOMAIN sessions :
              /\ sessions[s].browserClient \in DOMAIN clients
              /\ sessions[s].browserClient > c
              /\ sessions[s].agentClients # <<>>

\* ------------------------------- two auto-reconnecting providers, one session
\* what the steps of the two BTCPClient instances leave alone
notPeers == <<sessions, clients, pendingResponses, timers, keepAliveIntervals,
              messageCounter, chan, hist, posts, ticks, cap, poster, http,
              bc, sources, backoff, requests, clog, parsed, stopped>>

\* the relay's client ids whose stream no BTCPClient has seen open yet
Unclaimed == DOMAIN chan \ UNION {peers[p].streams : p \in Peers}

\* connect() called by the application of instance p: new EventSourceImpl(url)
connectPeer(p) ==
    /\ peers[p].phase = "idle"
    /\ peers' = [peers EXCEPT ![p].phase = "request"]
    /\ UNCHANGED notPeers

\* the GET /events of an instance's EventSource reaches the relay
attachPeer ==
    /\ Cardinality(Unclaimed) < Cardinality({p \in Peers : peers[p].phase = "request"})
    /\ handleSSE("browser", DuelSession)

\* eventSource.onopen of instance p: the response headers of stream c arrived
onopenPeer(p, c) ==
    /\ peers[p].phase = "request"
    /\ c \in Unclaimed
    /\ peers' = [peers EXCEPT ![p].phase = "stream", ![p].connected = TRUE,
                              ![p].reconnectAttempts = 0, ![p].eventSource = c,
                              ![p].streams = @ \cup {c},
                              ![p].clog = [sched |-> <<>>, errors |-> 0]]
    /\ UNCHANGED notPeers

\* eventSource.onerror of instance p: the relay ended the response (res 'end')
onerrorPeer(p) ==
    /\ peers[p].phase = "stream"
    /\ ~Writable(clients, peers[p].eventSource)
    /\ LET b == [peers[p] EXCEPT !.connected = FALSE, !.phase = "done"]
           r == IF peers[p].connected
                THEN handleReconnect(b, b.backoff, b.clog)
                ELSE [bc |-> b, backoff |-> b.backoff, clog |-> b.clog]
       IN  peers' = [peers EXCEPT ![p] = [r.bc EXCEPT !.backoff = r.backoff,
                                                       !.clog = r.clog]]
    /\ UNCHANGED notPeers

\* the setTimeout callback of instance p's handleReconnect: this.connect()
reconnectPeer(p, i) ==
    /\ i \in DOMAIN peers[p].backoff
    /\ peers' = [peers EXCEPT ![p].backoff = Cleared(@, i),
                              ![p].phase = IF peers[p].connected THEN @ ELSE "request"]
    /\ UNCHANGED notPeers

InitDuel ==
    /\ Constructed
    /\ RelayOnly
    /\ cap = [clients |-> MaxSources, posts |-> 0, ticks |-> 0, trace |-> FALSE,
              http |-> FALSE]

\* the relay serves the instances' attaches and the close events of the
\* responses it ended
NextDuel ==
    \/ \E p \in Peers : connectPeer(p)
    \/ attachPeer
    \/ \E p \in Peers, c \in DOMAIN chan : onopenPeer(p, c)
    \/ \E p \in Peers : onerrorPeer(p)
    \/ \E p \in Peers : \E i \in DOMAIN peers[p].backoff : reconnectPeer(p, i)
    \/ \E c \in DOMAIN clients : clients[c].ended /\ handleDisconnect(c)

SpecDuel == InitDuel /\ [][NextDuel]_vars

\* the relay ended stream c with the takeover error
Evicted(c) ==
    \E k \in 1..Len(chan[c]) : chan[c][k].kind = "error" /\ chan[c][k].id = IdDisconnect

\* C36: of two auto-reconnecting providers of one session, the one evicted by
\* the other's attach does not re-attach and evict its successor: at most one
\* of the two instances ever has a stream ended by a takeover.
C36_NoMutualTakeover ==
    Cardinality({p \in Peers : \E c \in peers[p].streams : Evicted(c)}) <= 1

\* C37: a POST answered with a 4xx status, whatever the cause, leaves the
\* sessions (tool lists, callers maps), the pending tables and every SSE
\* channel exactly as they were before the POST.
C37_RejectedUnchanged ==
    [][ \A w \in DOMAIN clients, cid \in DOMAIN clients \cup {None},
           s \in SessionIds, body \in Bodies :
          (handleMessage(w, cid, s, body) /\ http'.status >= 400) =>
              UNCHANGED <<sessions, pendingResponses, chan>> ]_vars

\* C38: a tools/call or tools/list is forwarded only for a sender that is in
\* the session's callers map: whenever a pending route is created, its agentId
\* is a member of that session's agentClients.
C38_ForwardedForCallers ==
    [][ \A i \in DOMAIN pendingResponses' \ DOMAIN pendingResponses :
          LET s == pendingResponses'[i].sid
          IN  /\ s \in DOMAIN sessions
              /\ pendingResponses'[i].agentId \in Range(sessions[s].agentClients) ]_vars

\* the places on the channel of c where the step wrote a tool list of session
\* s: a session/join response for s, or a tools/updated notification
ListsPushed(c, s) ==
    {k \in (Len(chan[c]) + 1)..Len(chan'[c]) :
        \/ chan'[c][k].kind = "result" /\ chan'[c][k].sid = s
        \/ chan'[c][k].kind = "notify" /\ chan'[c][k].method = "tools/updated"}

\* C39: the tool list last pushed to a caller of a session equals the session's
\* tool list.  Step by step: whenever a peer becomes a caller of a session, or
\* the tool list of a session that has callers changes, the step pushes to each
\* such caller whose channel is open a join snapshot or a tools/updated
\* notification, the last of which carries the session's new list.
C39_CallersHaveCurrentTools ==
    [][ \A s \in DOMAIN sessions' : \A c \in Range(sessions'[s].agentClients) :
          (/\ Writable(clients, c)
           /\ \/ s \notin DOMAIN sessions
              \/ c \notin Range(sessions[s].agentClients)
              \/ sessions'[s].tools # sessions[s].tools)
             => /\ ListsPushed(c, s) # {}
                /\ \A k \in ListsPushed(c, s) :
                      (\A j \in ListsPushed(c, s) : j <= k)
                          => chan'[c][k].tools = sessions'[s].tools ]_vars

\* C40: stop() leaves the sessions and clients maps empty, and from then on no
\* frame and no keep-alive line is written to a channel that existed when
\* stop() was called, whichever timers armed before the stop fire after it.
C40_SilentAfterStop ==
    [][ /\ stop => (sessions' = Empty /\ clients' = Empty)
        /\ \A c \in stopped'.channels :
              chan'[c] = chan[c] /\ ticks'[c] = ticks[c] ]_vars

\* a timeout timer that was armed when stop() was called has fired since, for a
\* request whose caller was in the callers map of the stopped session
C40_Witness ==
    \E i \in stopped.timers :
        /\ i \notin DOMAIN timers
        /\ i \notin DOMAIN pendingResponses
        /\ hist[i].outcome = "timeout"
        /\ hist[i].who \in stopped.channels
        /\ \E k \in 1..Len(chan[hist[i].who]) :
              /\ chan[hist[i].who][k].kind = "result"
              /\ chan[hist[i].who][k].sid = hist[i].sid
====
